---- MODULE Spec2Model ----
(***************************************************************************)
(* Character input stream of 8cc (file.c): a stack of input units, each    *)
(* backed by a stdio FILE or by a C string, read through readc()/unreadc() *)
(* with CR canonicalisation, backslash-newline splicing and the newline    *)
(* that is supplied before an EOF that does not follow a newline.          *)
(***************************************************************************)
EXTENDS Integers, Sequences, FiniteSets, TLC

VARIABLES
    files,       \* the Vector `files`: sequence of File records, tail = top
    failed,      \* TRUE once an assertion of the program has aborted it
    charSigned,  \* whether plain `char` is signed in this build
    op,          \* name of the operation performed last
    retc,        \* int returned by the last readc() / stream_depth(), or the
                 \* argument of the last unreadc()
    retpos,      \* value returned by the last input_position()
    retfile,     \* <<File>> returned by the last current_file(), else << >>
    popped,      \* number of units the last readc() popped on its way
    out,         \* values readc() has returned since the stream was set up
    hist,        \* values read by the caller and not unread again (caller's view)
    pending,     \* number of caller unreads not yet read back
    nops,        \* number of state-changing operations performed
    iter         \* 0 outside readc(); k > 0 at the start of the k-th iteration
                 \* of the loop of a readc() that is followed step by step

vars ==
    <<files, failed, charSigned, op, retc, retpos, retfile, popped, out, hist, pending, nops, iter>>

----------------------------------------------------------------------------
(* Character codes *)

EOF == -1
NUL == 0
NL == 10
CR == 13
BS == 92
(* Sample bytes: two letters, the lowest byte that is negative as a signed *)
(* char, and the byte that equals EOF as a signed char.                   *)
Letters == <<97, 98>>
LA == Letters[1]
LB == Letters[2]
HI == 2^7
FF == 2^8 - 1

(* Capacity of File.buf (int buf[3] in struct File). *)
BufSize == 3

(* Bounds of the model *)
MaxLen == 4
MaxOps == 5
MaxWFOps == 7
MaxDepth == 2
MaxLoopOps == 3
MaxIter == 8

Alphabet == {LA, BS, NL, CR, HI, FF}

RECURSIVE StringsUpTo(_)
StringsUpTo(n) ==
    IF n = 0 THEN {<< >>}
    ELSE LET S == StringsUpTo(n - 1)
         IN S \cup {Append(s, b) : s \in {t \in S : Len(t) = n - 1}, b \in Alphabet}

(* Contents offered to the stack machine. *)
Texts ==
    { << >>, <<LA>>, <<BS, HI>> }

Names == {"a.c"}
NullName == "(null)"

----------------------------------------------------------------------------
(* The Vector primitives used by file.c *)

vec_len(v) == Len(v)
vec_tail(v) == v[Len(v)]
vec_pop(v) == SubSeq(v, 1, Len(v) - 1)
(* vec_tail and vec_pop fail on an empty vector *)
vec_empty(v) == Len(v) = 0
vec_push(v, e) == Append(v, e)
set_tail(v, e) == [v EXCEPT ![Len(v)] = e]

----------------------------------------------------------------------------
(* Source units *)

(* Variant: r->line = 1 is missing, the line stays as calloc left it *)
make_file_line0(data, name, autopop) ==
    [file |-> TRUE, src |-> data, p |-> 0, name |-> name, line |-> 0,
     column |-> 0, last |-> 0, buf |-> << >>, autopop |-> autopop]

make_file(data, name, autopop) ==
    [file |-> TRUE, src |-> data, p |-> 0, name |-> name, line |-> 1,
     column |-> 0, last |-> 0, buf |-> << >>, autopop |-> autopop]

make_file_string(s, autopop) ==
    [file |-> FALSE, src |-> s, p |-> 0, name |-> NullName, line |-> 1,
     column |-> 0, last |-> 0, buf |-> << >>, autopop |-> autopop]

(* getc(f->file): the next byte as an unsigned char, or EOF *)
getc(f) == IF f.p < Len(f.src) THEN f.src[f.p + 1] ELSE EOF

(* A byte of a C string seen through a `char *` and widened to int *)
plain_char(b) == IF charSigned /\ b >= 2^7 THEN b - 2^8 ELSE b

(* *f->p: the byte under the cursor as a plain char, NUL at the end *)
deref(f) == IF f.p < Len(f.src) THEN plain_char(f.src[f.p + 1]) ELSE NUL

(* Variant: only a preceding newline, not a preceding EOF, lets EOF through *)
eof_or_newline_nl_only(f) == IF f.last = NL THEN EOF ELSE NL

(* Variant: an EOF is passed on even when it does not follow a newline *)
eof_or_newline_never(f) == EOF

eof_or_newline(f) == IF f.last = NL \/ f.last = EOF THEN EOF ELSE NL

readc_file(f) ==
    LET c == getc(f)
    IN IF c = EOF
       THEN LET c1 == eof_or_newline(f)
            IN [f |-> [f EXCEPT !.last = c1], c |-> c1]
       ELSE IF c = CR
       THEN LET f1 == [f EXCEPT !.p = @ + 1]
                c2 == getc(f1)
                f2 == IF c2 = NL THEN [f1 EXCEPT !.p = @ + 1] ELSE f1
            IN [f |-> [f2 EXCEPT !.last = NL], c |-> NL]
       ELSE [f |-> [f EXCEPT !.p = @ + 1, !.last = c], c |-> c]

(* Variant: the newline that follows a carriage return is left unread *)
readc_string_keep_lf(f) ==
    IF deref(f) = NUL
    THEN LET c == eof_or_newline(f)
         IN [f |-> [f EXCEPT !.last = c], c |-> c]
    ELSE IF deref(f) = CR
    THEN [f |-> [f EXCEPT !.p = @ + 1, !.last = NL], c |-> NL]
    ELSE LET c == deref(f)
         IN [f |-> [f EXCEPT !.p = @ + 1, !.last = c], c |-> c]

readc_string(f) ==
    IF deref(f) = NUL
    THEN LET c == eof_or_newline(f)
         IN [f |-> [f EXCEPT !.last = c], c |-> c]
    ELSE IF deref(f) = CR
    THEN LET f1 == [f EXCEPT !.p = @ + 1]
             f2 == IF deref(f1) = NL THEN [f1 EXCEPT !.p = @ + 1] ELSE f1
         IN [f |-> [f2 EXCEPT !.last = NL], c |-> NL]
    ELSE LET c == deref(f)
         IN [f |-> [f EXCEPT !.p = @ + 1, !.last = c], c |-> c]

(* Result of an operation on the stack: the new stack, the value returned, *)
(* and whether an assertion aborted the program.                           *)
Res(fs, c, bad) == [files |-> fs, c |-> c, failed |-> bad]

(* Variant: the column is advanced for characters only, not for EOF *)
get_eof_keeps_column(fs) ==
    IF vec_empty(fs) THEN Res(fs, EOF, TRUE)
    ELSE LET f == vec_tail(fs)
             r == IF Len(f.buf) > 0
                  THEN [f |-> [f EXCEPT !.buf = SubSeq(@, 1, Len(@) - 1)],
                        c |-> f.buf[Len(f.buf)]]
                  ELSE IF f.file THEN readc_file(f)
                  ELSE readc_string(f)
             g == IF r.c = NL
                  THEN [r.f EXCEPT !.line = @ + 1, !.column = 0]
                  ELSE IF r.c = EOF THEN r.f
                  ELSE [r.f EXCEPT !.column = @ + 1]
         IN Res(set_tail(fs, g), r.c, FALSE)

get(fs) ==
    IF vec_empty(fs) THEN Res(fs, EOF, TRUE)
    ELSE LET f == vec_tail(fs)
             r == IF Len(f.buf) > 0
                  THEN [f |-> [f EXCEPT !.buf = SubSeq(@, 1, Len(@) - 1)],
                        c |-> f.buf[Len(f.buf)]]
                  ELSE IF f.file THEN readc_file(f)
                  ELSE readc_string(f)
             g == IF r.c = NL
                  THEN [r.f EXCEPT !.line = @ + 1, !.column = 0]
                  ELSE [r.f EXCEPT !.column = @ + 1]
         IN Res(set_tail(fs, g), r.c, FALSE)

(* Variant: the character goes to the pushback of the bottom unit *)
unreadc_head(fs, c) ==
    IF c < 0 THEN Res(fs, c, FALSE)
    ELSE IF vec_empty(fs) THEN Res(fs, c, TRUE)
    ELSE LET f == fs[1]
         IN IF ~(Len(f.buf) < BufSize) THEN Res(fs, c, TRUE)
            ELSE LET f1 == [f EXCEPT !.buf = Append(@, c)]
                     f2 == IF c = NL
                           THEN [f1 EXCEPT !.column = 0, !.line = @ - 1]
                           ELSE [f1 EXCEPT !.column = @ - 1]
                 IN Res([fs EXCEPT ![1] = f2], c, FALSE)

(* Variant: the sign test comes after the top unit has been fetched *)
unreadc_late_guard(fs, c) ==
    IF vec_empty(fs) THEN Res(fs, c, TRUE)
    ELSE LET f == vec_tail(fs)
         IN IF c < 0 THEN Res(set_tail(fs, [f EXCEPT !.column = @ - 1]), c, FALSE)
            ELSE IF ~(Len(f.buf) < BufSize) THEN Res(fs, c, TRUE)
            ELSE LET f1 == [f EXCEPT !.buf = Append(@, c)]
                     f2 == IF c = NL
                           THEN [f1 EXCEPT !.column = 0, !.line = @ - 1]
                           ELSE [f1 EXCEPT !.column = @ - 1]
                 IN Res(set_tail(fs, f2), c, FALSE)

unreadc(fs, c) ==
    IF c < 0 THEN Res(fs, c, FALSE)
    ELSE IF vec_empty(fs) THEN Res(fs, c, TRUE)
    ELSE LET f == vec_tail(fs)
         IN IF ~(Len(f.buf) < BufSize) THEN Res(fs, c, TRUE)
            ELSE LET f1 == [f EXCEPT !.buf = Append(@, c)]
                     f2 == IF c = NL
                           THEN [f1 EXCEPT !.column = 0, !.line = @ - 1]
                           ELSE [f1 EXCEPT !.column = @ - 1]
                 IN Res(set_tail(fs, f2), c, FALSE)

(* Variant: EOF is returned from an auto-pop unit as from any other *)
RECURSIVE readc_no_autopop(_)
readc_no_autopop(fs) ==
    LET g == get(fs)
    IN IF g.failed THEN g
       ELSE IF g.c = EOF THEN g
       ELSE IF g.c # BS THEN g
       ELSE LET g2 == get(g.files)
            IN IF g2.c = NL THEN readc_no_autopop(g2.files)
               ELSE LET u == unreadc(g2.files, g2.c)
                    IN Res(u.files, g.c, u.failed)

RECURSIVE readc(_)
readc(fs) ==
    LET g == get(fs)
    IN IF g.failed THEN g
       ELSE IF g.c = EOF
       THEN IF vec_tail(g.files).autopop THEN readc(vec_pop(g.files)) ELSE g
       ELSE IF g.c # BS THEN g
       ELSE LET g2 == get(g.files)
            IN IF g2.c = NL THEN readc(g2.files)
               ELSE LET u == unreadc(g2.files, g2.c)
                    IN Res(u.files, g.c, u.failed)

(* Result of one iteration of the loop of readc(): as Res, with what the  *)
(* iteration ended in: "return", or "pop" / "splice" that go round again.  *)
Iter(fs, c, bad, kind) == [files |-> fs, c |-> c, failed |-> bad, kind |-> kind]

(* Variant: the auto-pop branch goes round again without vec_pop(files) *)
readc_iter_no_pop(fs) ==
    LET g == get(fs)
    IN IF g.failed THEN Iter(g.files, g.c, TRUE, "return")
       ELSE IF g.c = EOF
       THEN IF vec_tail(g.files).autopop
            THEN Iter(g.files, g.c, FALSE, "pop")
            ELSE Iter(g.files, g.c, FALSE, "return")
       ELSE IF g.c # BS THEN Iter(g.files, g.c, FALSE, "return")
       ELSE LET g2 == get(g.files)
            IN IF g2.c = NL THEN Iter(g2.files, g.c, FALSE, "splice")
               ELSE LET u == unreadc(g2.files, g2.c)
                    IN Iter(u.files, g.c, u.failed, "return")

(* One iteration of the loop of readc() *)
readc_iter(fs) ==
    LET g == get(fs)
    IN IF g.failed THEN Iter(g.files, g.c, TRUE, "return")
       ELSE IF g.c = EOF
       THEN IF vec_tail(g.files).autopop
            THEN Iter(vec_pop(g.files), g.c, FALSE, "pop")
            ELSE Iter(g.files, g.c, FALSE, "return")
       ELSE IF g.c # BS THEN Iter(g.files, g.c, FALSE, "return")
       ELSE LET g2 == get(g.files)
            IN IF g2.c = NL THEN Iter(g2.files, g.c, FALSE, "splice")
               ELSE LET u == unreadc(g2.files, g2.c)
                    IN Iter(u.files, g.c, u.failed, "return")

(* Variant: the first unit of the vector is returned instead of the last *)
current_file_head(fs) ==
    IF vec_empty(fs) THEN [file |-> << >>, failed |-> TRUE]
    ELSE [file |-> <<fs[1]>>, failed |-> FALSE]

current_file(fs) ==
    IF vec_empty(fs) THEN [file |-> << >>, failed |-> TRUE]
    ELSE [file |-> <<vec_tail(fs)>>, failed |-> FALSE]

insert_stream(fs, data, name) == vec_push(fs, make_file(data, name, TRUE))

push_stream(fs, data, name) == vec_push(fs, make_file(data, name, FALSE))

push_stream_string(fs, s) == vec_push(fs, make_file_string(s, FALSE))

pop_stream(fs) ==
    IF vec_empty(fs) THEN Res(fs, 0, TRUE) ELSE Res(vec_pop(fs), 0, FALSE)

stream_depth(fs) == vec_len(fs)

(* format("%d", n) *)
DecDigit == <<"0", "1", "2", "3", "4", "5", "6", "7", "8", "9">>

RECURSIVE DecNat(_)
DecNat(n) == IF n < 10 THEN DecDigit[n + 1] ELSE DecNat(n \div 10) \o DecDigit[(n % 10) + 1]

Dec(n) == IF n < 0 THEN "-" \o DecNat(0 - n) ELSE DecNat(n)

format(name, line, column) == name \o ":" \o Dec(line) \o ":" \o Dec(column)

(* Variant: the emptiness test is missing and a zeroed unit is formatted *)
input_position_no_guard(fs) ==
    IF vec_len(fs) = 0 THEN format(NullName, 0, 0)
    ELSE LET f == vec_tail(fs) IN format(f.name, f.line, f.column)

input_position(fs) ==
    IF vec_len(fs) = 0 THEN "(unknown)"
    ELSE LET f == vec_tail(fs) IN format(f.name, f.line, f.column)

----------------------------------------------------------------------------
(* The stream driven by an arbitrary caller *)

Init ==
    /\ files = << >>
    /\ failed = FALSE
    /\ charSigned \in BOOLEAN
    /\ op = "init"
    /\ retc = 0
    /\ retpos = ""
    /\ retfile = << >>
    /\ popped = 0
    /\ out = << >>
    /\ hist = << >>
    /\ pending = 0
    /\ nops = 0
    /\ iter = 0

(* What an operation leaves behind: the stack, the abort flag, its name and *)
(* its return value (the other return slots are cleared).                   *)
Done(fs, bad, name, c, pos, file, np) ==
    /\ files' = fs
    /\ failed' = bad
    /\ op' = name
    /\ retc' = c
    /\ retpos' = pos
    /\ retfile' = file
    /\ popped' = np
    /\ iter' = 0
    /\ UNCHANGED charSigned

Step == ~failed /\ nops < MaxOps /\ nops' = nops + 1 /\ UNCHANGED <<out, hist, pending>>

Look == ~failed /\ UNCHANGED <<out, hist, pending, nops>>

InsertStream(data, name) ==
    /\ Step
    /\ vec_len(files) < MaxDepth
    /\ Done(insert_stream(files, data, name), FALSE, "insert_stream", 0, "", << >>, 0)

PushStream(data, name) ==
    /\ Step
    /\ vec_len(files) < MaxDepth
    /\ Done(push_stream(files, data, name), FALSE, "push_stream", 0, "", << >>, 0)

PushStreamString(s) ==
    /\ Step
    /\ vec_len(files) < MaxDepth
    /\ Done(push_stream_string(files, s), FALSE, "push_stream_string", 0, "", << >>, 0)

PopStream ==
    /\ Step
    /\ LET r == pop_stream(files)
       IN Done(r.files, r.failed, "pop_stream", 0, "", << >>, 0)

Readc ==
    /\ Step
    /\ LET r == readc(files)
       IN Done(r.files, r.failed, "readc", r.c, "", << >>, vec_len(files) - vec_len(r.files))

Unreadc(c) ==
    /\ Step
    /\ LET r == unreadc(files, c)
       IN Done(r.files, r.failed, "unreadc", c, "", << >>, 0)

CurrentFile ==
    /\ Look
    /\ LET r == current_file(files)
       IN Done(files, r.failed, "current_file", 0, "", r.file, 0)

StreamDepth ==
    /\ Look
    /\ Done(files, FALSE, "stream_depth", stream_depth(files), "", << >>, 0)

(* format("%s", f->name) with f->name a null pointer is undefined: the C   *)
(* library either prints a placeholder for it or the program crashes.      *)
FormatCrashes(fs) ==
    IF ~vec_empty(fs) /\ vec_tail(fs).name = NullName THEN BOOLEAN ELSE {FALSE}

InputPosition ==
    /\ Look
    /\ \E crash \in FormatCrashes(files) :
          Done(files, crash, "input_position", 0,
               IF crash THEN "" ELSE input_position(files), << >>, 0)

UnreadArgs == {EOF, LA, NL}

Next ==
    \/ \E d \in Texts, n \in Names : InsertStream(d, n)
    \/ \E d \in Texts, n \in Names : PushStream(d, n)
    \/ \E s \in Texts : PushStreamString(s)
    \/ PopStream
    \/ Readc
    \/ \E c \in UnreadArgs : Unreadc(c)
    \/ CurrentFile
    \/ StreamDepth
    \/ InputPosition

Spec == Init /\ [][Next]_vars

----------------------------------------------------------------------------
(* One unit read to its first EOF: the unit is the only one on the stack,  *)
(* pushed by push_stream or push_stream_string, and the caller only reads. *)

Fresh(fs) ==
    /\ files = fs
    /\ failed = FALSE
    /\ charSigned \in BOOLEAN
    /\ op = "init"
    /\ retc = 0
    /\ retpos = ""
    /\ retfile = << >>
    /\ popped = 0
    /\ out = << >>
    /\ hist = << >>
    /\ pending = 0
    /\ nops = 0
    /\ iter = 0

InitRead ==
    \E s \in StringsUpTo(MaxLen) :
        \/ Fresh(push_stream_string(<< >>, s))
        \/ \E n \in Names : Fresh(push_stream(<< >>, s, n))

ReadEnded == out # << >> /\ out[Len(out)] = EOF

ReadNext ==
    /\ ~failed
    /\ ~ReadEnded
    /\ LET r == readc(files)
       IN /\ Done(r.files, r.failed, "readc", r.c, "", << >>, vec_len(files) - vec_len(r.files))
          /\ out' = Append(out, r.c)
    /\ UNCHANGED <<hist, pending, nops>>

NextRead == ReadNext

SpecRead == InitRead /\ [][NextRead]_vars

(* Everything readc() returns from the stack fs up to and including the first EOF *)
RECURSIVE read_all(_)
read_all(fs) ==
    LET r == readc(fs)
    IN IF r.failed \/ r.c = EOF THEN <<r.c>> ELSE <<r.c>> \o read_all(r.files)

(* Reference passes over a unit's text *)
Drop(s, n) == SubSeq(s, n + 1, Len(s))

RECURSIVE ReplaceCR(_)
ReplaceCR(s) ==
    IF s = << >> THEN << >>
    ELSE IF s[1] = CR
    THEN IF Len(s) >= 2 /\ s[2] = NL THEN <<NL>> \o ReplaceCR(Drop(s, 2))
         ELSE <<NL>> \o ReplaceCR(Drop(s, 1))
    ELSE <<s[1]>> \o ReplaceCR(Drop(s, 1))

EndWithNL(s) == IF s = << >> \/ s[Len(s)] # NL THEN Append(s, NL) ELSE s

RECURSIVE DeleteSplices(_)
DeleteSplices(s) ==
    IF s = << >> THEN << >>
    ELSE IF s[1] = BS /\ Len(s) >= 2 /\ s[2] = NL THEN DeleteSplices(Drop(s, 2))
    ELSE <<s[1]>> \o DeleteSplices(Drop(s, 1))

(* The text of the unit under test, and a fresh unit of the same kind *)
Text == files[1].src
IsStringUnit == ~files[1].file
EndsInNL(s) == s # << >> /\ s[Len(s)] = NL
SameKind(s) ==
    IF files[1].file THEN push_stream(<< >>, s, files[1].name)
    ELSE push_stream_string(<< >>, s)

(* The characters of a text as the unit's origin hands them over *)
RawChars(s) ==
    IF files[1].file THEN s ELSE [i \in 1..Len(s) |-> plain_char(s[i])]

----------------------------------------------------------------------------
(* C1: a string-backed unit read to its first EOF delivers its raw        *)
(* characters, CRs replaced and a final newline supplied, with every      *)
(* backslash-newline pair deleted and every other character kept: a       *)
(* backslash followed by another character is delivered, and then that    *)
(* character.                                                             *)
C1_SpliceOnly ==
    (ReadEnded /\ IsStringUnit)
        => out = Append(DeleteSplices(EndWithNL(ReplaceCR(RawChars(Text)))), EOF)

(* C1 where plain char is unsigned, and for file-backed units *)
C1_SpliceOnly_UnsignedChar ==
    (ReadEnded /\ (~charSigned \/ ~IsStringUnit))
        => out = Append(DeleteSplices(EndWithNL(ReplaceCR(RawChars(Text)))), EOF)

(* C2: a string not ending in a newline reads exactly like the same       *)
(* string followed by one newline.                                        *)
C2_ImplicitNewline ==
    (ReadEnded /\ IsStringUnit /\ ~EndsInNL(Text))
        => out = read_all(SameKind(Append(Text, NL)))

(* C2 where plain char is unsigned, and for file-backed units *)
C2_ImplicitNewline_UnsignedChar ==
    (ReadEnded /\ ~EndsInNL(Text) /\ (~charSigned \/ ~IsStringUnit))
        => out = read_all(SameKind(Append(Text, NL)))

(* C3: a text reads exactly like the text in which every CR NL pair and   *)
(* every lone CR has been replaced by one NL.                             *)
C3_CRReplaced == ReadEnded => out = read_all(SameKind(ReplaceCR(Text)))

C3_Witness ==
    /\ ReadEnded /\ Len(Text) >= 3
    /\ Text[1] = BS /\ Text[2] = CR /\ Text[Len(Text)] = CR

(* C11: in what readc() delivers from a unit, EOF immediately follows a    *)
(* newline.                                                                *)
C11_EOFFollowsNewline ==
    ReadEnded => (Len(out) >= 2 /\ out[Len(out) - 1] = NL)

(* C19: every value readc() returns is EOF or a character code 0..255,   *)
(* and so a readc() that returns EOF finds the origin of the unit          *)
(* exhausted.                                                              *)
C19_ReturnRange ==
    op = "readc"
        => /\ retc = EOF \/ retc \in 0..(2^8 - 1)
           /\ (retc = EOF /\ ~failed) => files[1].p = Len(Text)

----------------------------------------------------------------------------
(* The stream driven by a caller that keeps the unread contract: it unreads *)
(* only what readc() returned to it, most recently read first, never more   *)
(* than BufSize values outstanding, and not across a push or a pop; it      *)
(* reads only while some unit that is not auto-pop is on the stack, and     *)
(* pops only a non-empty stack.                                             *)

(* BufSize values to read, the last of them a backslash that is followed *)
(* by a character other than a newline.                                   *)
LookaheadText ==
    [i \in 1..(BufSize + 1) |-> IF i = BufSize THEN BS ELSE IF i = 2 THEN LB ELSE LA]

WFTexts == Texts \cup { <<BS>>, <<LA, NL>>, LookaheadText }

WFStep == ~failed /\ nops < MaxWFOps /\ nops' = nops + 1 /\ UNCHANGED out

WFInsert(data, name) ==
    /\ WFStep
    /\ vec_len(files) < MaxDepth
    /\ Done(insert_stream(files, data, name), FALSE, "insert_stream", 0, "", << >>, 0)
    /\ hist' = << >> /\ pending' = 0

WFPush(data, name) ==
    /\ WFStep
    /\ vec_len(files) < MaxDepth
    /\ Done(push_stream(files, data, name), FALSE, "push_stream", 0, "", << >>, 0)
    /\ hist' = << >> /\ pending' = 0

WFPushString(s) ==
    /\ WFStep
    /\ vec_len(files) < MaxDepth
    /\ Done(push_stream_string(files, s), FALSE, "push_stream_string", 0, "", << >>, 0)
    /\ hist' = << >> /\ pending' = 0

WFPop ==
    /\ WFStep
    /\ ~vec_empty(files)
    /\ LET r == pop_stream(files)
       IN Done(r.files, r.failed, "pop_stream", 0, "", << >>, 0)
    /\ hist' = << >> /\ pending' = 0

WFRead ==
    /\ WFStep
    /\ \E i \in 1..vec_len(files) : ~files[i].autopop
    /\ LET r == readc(files)
           np == vec_len(files) - vec_len(r.files)
       IN /\ Done(r.files, r.failed, "readc", r.c, "", << >>, np)
          /\ hist' = IF np > 0 THEN <<r.c>> ELSE Append(hist, r.c)
          /\ pending' = IF np > 0 \/ pending = 0 THEN 0 ELSE pending - 1

WFUnread ==
    /\ WFStep
    /\ hist # << >>
    /\ pending < BufSize
    /\ LET c == hist[Len(hist)]
           r == unreadc(files, c)
       IN Done(r.files, r.failed, "unreadc", c, "", << >>, 0)
    /\ hist' = SubSeq(hist, 1, Len(hist) - 1)
    /\ pending' = pending + 1

NextWF ==
    \/ \E d \in WFTexts, n \in Names : WFInsert(d, n)
    \/ \E d \in WFTexts, n \in Names : WFPush(d, n)
    \/ \E s \in WFTexts : WFPushString(s)
    \/ WFPop
    \/ WFRead
    \/ WFUnread

SpecWF == Init /\ [][NextWF]_vars

----------------------------------------------------------------------------
(* readc() followed through its loop: the caller sets the stack up and    *)
(* calls readc() only while some unit on the stack is not auto-pop; the    *)
(* call then runs one iteration of the loop per step.                      *)

LoopTexts == { << >>, <<BS>>, <<BS, NL, LA>> }

LoopUnreadArgs == {BS, NL}

LoopStep ==
    /\ ~failed /\ iter = 0
    /\ nops < MaxLoopOps /\ nops' = nops + 1
    /\ UNCHANGED <<out, hist, pending>>

LoopInsert(data, name) ==
    /\ LoopStep
    /\ vec_len(files) < MaxDepth
    /\ Done(insert_stream(files, data, name), FALSE, "insert_stream", 0, "", << >>, 0)

LoopPush(data, name) ==
    /\ LoopStep
    /\ vec_len(files) < MaxDepth
    /\ Done(push_stream(files, data, name), FALSE, "push_stream", 0, "", << >>, 0)

LoopPushString(s) ==
    /\ LoopStep
    /\ vec_len(files) < MaxDepth
    /\ Done(push_stream_string(files, s), FALSE, "push_stream_string", 0, "", << >>, 0)

LoopUnread(c) ==
    /\ LoopStep
    /\ ~vec_empty(files)
    /\ Len(vec_tail(files).buf) < BufSize
    /\ LET r == unreadc(files, c)
       IN Done(r.files, r.failed, "unreadc", c, "", << >>, 0)

(* The caller enters readc(): control is at the top of for (;;) *)
LoopCall ==
    /\ LoopStep
    /\ \E i \in 1..vec_len(files) : ~files[i].autopop
    /\ iter' = 1
    /\ popped' = 0
    /\ op' = "call readc"
    /\ UNCHANGED <<files, failed, charSigned, retc, retpos, retfile>>

InLoop == ~failed /\ iter > 0 /\ iter < MaxIter

(* An iteration that takes `continue` *)
GoRound(it) ==
    /\ files' = it.files
    /\ iter' = iter + 1
    /\ UNCHANGED <<failed, charSigned, op, retc, retpos, retfile, out, hist, pending, nops>>

IterReturn ==
    /\ InLoop
    /\ \E it \in {readc_iter(files)} :
          /\ it.kind = "return"
          /\ Done(it.files, it.failed, "readc", it.c, "", << >>, popped)
    /\ UNCHANGED <<out, hist, pending, nops>>

IterPop ==
    /\ InLoop
    /\ \E it \in {readc_iter(files)} : it.kind = "pop" /\ GoRound(it)
    /\ popped' = popped + 1

IterSplice ==
    /\ InLoop
    /\ \E it \in {readc_iter(files)} : it.kind = "splice" /\ GoRound(it)
    /\ UNCHANGED popped

Iterate == IterReturn \/ IterPop \/ IterSplice

NextLoop ==
    \/ \E d \in LoopTexts, n \in Names : LoopInsert(d, n)
    \/ \E d \in LoopTexts, n \in Names : LoopPush(d, n)
    \/ \E s \in LoopTexts : LoopPushString(s)
    \/ \E c \in LoopUnreadArgs : LoopUnread(c)
    \/ LoopCall
    \/ IterReturn
    \/ IterPop
    \/ IterSplice

(* A running call goes on: the loop takes its next iteration *)
SpecLoop == Init /\ [][NextLoop]_vars /\ WF_vars(Iterate)

(* What a unit still has to deliver: its pushback, the rest of its origin, *)
(* and the newline supplied before its EOF.                                *)
Remaining(f) ==
    Len(f.buf) + (Len(f.src) - f.p) + (IF f.last \in {NL, EOF} THEN 0 ELSE 1)

(* An iteration returns, or pops the one top unit, auto-pop and with       *)
(* nothing left, or takes a backslash and a newline from the top unit and  *)
(* leaves the depth as it is.                                              *)
IterationShape ==
    \/ iter' = 0 /\ op' = "readc"
    \/ /\ iter' = iter + 1
       /\ vec_len(files') = vec_len(files) - 1
       /\ files' = SubSeq(files, 1, vec_len(files) - 1)
       /\ vec_tail(files).autopop
       /\ vec_tail(files).buf = << >> /\ vec_tail(files).p = Len(vec_tail(files).src)
    \/ /\ iter' = iter + 1
       /\ vec_len(files') = vec_len(files)
       /\ SubSeq(files', 1, vec_len(files) - 1) = SubSeq(files, 1, vec_len(files) - 1)
       /\ Remaining(vec_tail(files')) < Remaining(vec_tail(files))
       /\ vec_tail(files').line = vec_tail(files).line + 1

(* The loop followed step by step returns what readc() returns. *)
LoopIsReadc ==
    [][ iter > 0
          => IF iter' > 0 THEN readc(files') = readc(files)
             ELSE Res(files', retc', failed') = readc(files) ]_vars

(* C17: a readc() called with a unit on the stack that is not auto-pop     *)
(* never fails (it never takes the top of an empty stack), each iteration  *)
(* of its loop returns, pops one exhausted auto-pop unit or consumes one   *)
(* backslash-newline pair of the top unit, and the call returns.           *)
C17_ReadTerminates ==
    /\ [](~failed)
    /\ [][ iter > 0 => IterationShape ]_vars
    /\ (iter > 0) ~> (iter = 0 /\ op = "readc")

C17_Witness ==
    /\ op = "readc" /\ iter = 0 /\ ~failed /\ nops = 3
    /\ popped = 1 /\ retc = LA /\ vec_len(files) = 1
    /\ vec_tail(files).line = 2 /\ vec_tail(files).p = 3

----------------------------------------------------------------------------
(* A round trip on one unit: up to BufSize reads, then every value read is *)
(* unread in reverse order, then as many reads again.  retpos keeps        *)
(* input_position() as it was before the first read, hist the values read, *)
(* pending the number of unreads made, out the values read again.          *)

InitTrip ==
    /\ \E s \in StringsUpTo(MaxLen) :
          \/ files = push_stream_string(<< >>, s)
          \/ \E n \in Names : files = push_stream(<< >>, s, n)
    /\ failed = FALSE
    /\ charSigned \in BOOLEAN
    /\ op = "init"
    /\ retc = 0
    /\ retpos = input_position(files)
    /\ retfile = << >>
    /\ popped = 0
    /\ out = << >>
    /\ hist = << >>
    /\ pending = 0
    /\ nops = 0
    /\ iter = 0

TripRead ==
    /\ ~failed
    /\ pending = 0 /\ out = << >>
    /\ Len(hist) < BufSize
    /\ ~(hist # << >> /\ hist[Len(hist)] = EOF)
    /\ LET r == readc(files)
       IN /\ Done(r.files, r.failed, "readc", r.c, retpos, << >>, 0)
          /\ hist' = Append(hist, r.c)
    /\ UNCHANGED <<out, pending, nops>>

TripUnread ==
    /\ ~failed
    /\ out = << >>
    /\ hist # << >> /\ hist[Len(hist)] # EOF
    /\ pending < Len(hist)
    /\ LET c == hist[Len(hist) - pending]
           r == unreadc(files, c)
       IN Done(r.files, r.failed, "unreadc", c, retpos, << >>, 0)
    /\ pending' = pending + 1
    /\ UNCHANGED <<out, hist, nops>>

TripReread ==
    /\ ~failed
    /\ hist # << >> /\ pending = Len(hist)
    /\ Len(out) < Len(hist)
    /\ LET r == readc(files)
       IN /\ Done(r.files, r.failed, "readc", r.c, retpos, << >>, 0)
          /\ out' = Append(out, r.c)
    /\ UNCHANGED <<hist, pending, nops>>

NextTrip == TripRead \/ TripUnread \/ TripReread

SpecTrip == InitTrip /\ [][NextTrip]_vars

(* C4: the values read again equal the values read first, nothing fails,  *)
(* and once every value is unread input_position() is what it was before  *)
(* the first read.                                                        *)
C4_RoundTrip ==
    /\ ~failed
    /\ \A i \in 1..Len(out) : out[i] = hist[i]
    /\ (hist # << >> /\ pending = Len(hist) /\ out = << >>)
           => input_position(files) = retpos

(* C6: a caller that keeps the unread contract never makes an operation   *)
(* fail, and no pushback ever holds more than BufSize values.             *)
C6_NoFailure ==
    /\ ~failed
    /\ \A i \in 1..vec_len(files) : Len(files[i].buf) \in 0..BufSize

Top == vec_tail(files)

(* C12: under the unread contract every unit keeps line >= 1 and         *)
(* column >= 0.                                                           *)
C12_PositionCounters ==
    \A i \in 1..vec_len(files) : files[i].line >= 1 /\ files[i].column >= 0

(* The line half of C12, which holds *)
C12_LineAtLeastOne == \A i \in 1..vec_len(files) : files[i].line >= 1

PushOps == {"insert_stream", "push_stream", "push_stream_string"}

(* The units of the stack before the step that lie under the top of the   *)
(* stack after it are what they were.                                      *)
LowerUnitsKept ==
    \A i \in 1..(vec_len(files') - 1) : i <= vec_len(files) /\ files'[i] = files[i]

(* The unit that a readc() step uncovers by popping, and the stack that    *)
(* ends in it as it was before the step.                                   *)
Resumed == SubSeq(files, 1, vec_len(files'))

(* C13: readc(), unreadc() and the pushes leave every unit under the top   *)
(* as it was; pop_stream() uncovers the unit below as it was left; and a   *)
(* readc() that auto-pops goes on in the uncovered unit as a readc() on    *)
(* that unit does, with its pushback first (the origin cursor stays) and   *)
(* its origin at the saved cursor otherwise.                               *)
C13_OnlyTopTouched ==
    [][ /\ (op' \in (PushOps \cup {"readc", "unreadc"}) /\ ~failed') => LowerUnitsKept
        /\ (op' \in PushOps) => SubSeq(files', 1, vec_len(files)) = files
        /\ (op' = "unreadc" /\ ~failed') => vec_len(files') = vec_len(files)
        /\ (op' = "pop_stream" /\ ~failed') => files' = SubSeq(files, 1, vec_len(files) - 1)
        /\ (op' = "readc" /\ ~failed' /\ popped' > 0)
              => LET r == readc(Resumed)
                     f == vec_tail(Resumed)
                     g == vec_tail(files')
                 IN /\ files' = r.files /\ retc' = r.c
                    /\ (f.buf # << >> /\ f.buf[Len(f.buf)] # BS)
                          => /\ retc' = f.buf[Len(f.buf)]
                             /\ g.buf = SubSeq(f.buf, 1, Len(f.buf) - 1)
                             /\ g.p = f.p
                    /\ (f.buf = << >> /\ f.p < Len(f.src) /\ f.src[f.p + 1] = LA)
                          => retc' = LA /\ g.p = f.p + 1 ]_vars

C13_Witness ==
    /\ op = "readc" /\ popped = 1 /\ ~failed /\ vec_len(files) = 1
    /\ retc = LA /\ Top.p = 0 /\ Top.buf = << >> /\ Top.src = <<LA>>

(* What C14 says of every push: one unit more, and it is fresh. *)
FreshTop ==
    op' \in PushOps
        => /\ vec_len(files') = vec_len(files) + 1
           /\ SubSeq(files', 1, vec_len(files)) = files
           /\ vec_tail(files').line = 1
           /\ vec_tail(files').column = 0
           /\ vec_tail(files').buf = << >>
           /\ vec_tail(files').autopop = (op' = "insert_stream")

(* The readc() step leaves every unit under the top as it was and returns *)
(* what the top unit on its own delivers.                                 *)
FromNewUnit ==
    LET r == readc(<<vec_tail(files)>>)
    IN /\ popped' = 0
       /\ ~failed'
       /\ retc' = r.c
       /\ files' = set_tail(files, vec_tail(r.files))

C15_NamesDefined ==
    /\ \A i \in 1..vec_len(files) : files[i].name # NullName
    /\ (op = "input_position" /\ files # << >>)
          => /\ ~failed
             /\ retpos = format(Top.name, Top.line, Top.column)

(* C15 for the units pushed from a file, which holds *)
C15_FileUnitsNamed ==
    \A i \in 1..vec_len(files) : files[i].file => files[i].name \in Names

(* C16: where readc() has returned a character c without popping and the *)
(* pushback has room, unreadc(c) followed by readc() returns c again and   *)
(* leaves the stack as it was after the first readc().                     *)
C16_RereadIdempotent ==
    ( /\ op = "readc" /\ retc # EOF /\ popped = 0 /\ ~failed
      /\ Len(Top.buf) < BufSize )
        => LET u == unreadc(files, retc)
               r == readc(u.files)
           IN ~u.failed /\ ~r.failed /\ r.c = retc /\ r.files = files

(* C16 for the character codes 0..255 other than through the signed-char   *)
(* conversion, which holds                                                 *)
C16_RereadIdempotent_UnsignedChar ==
    ~charSigned => C16_RereadIdempotent

(* C18 as stated: a readc() that returns EOF adds one to the column of     *)
(* the top unit and leaves its line, its pushback and the depth alone, and *)
(* an unreadc(EOF) after it changes nothing.                               *)
C18_EOFAdvancesColumn ==
    [][ /\ (op' = "readc" /\ retc' = EOF /\ ~failed')
              => /\ vec_len(files') = vec_len(files)
                 /\ files' = set_tail(files, [Top EXCEPT !.column = @ + 1,
                                                           !.last = Top'.last,
                                                           !.p = Top'.p])
        /\ (op = "readc" /\ retc = EOF /\ op' = "unreadc") => files' = files ]_vars

(* C18 as amended: the same, for a readc() whose first get() on a top unit *)
(* that is not auto-pop already is EOF.                                    *)
C18_EOFAtEndAdvancesColumn ==
    [][ /\ (op' = "readc" /\ ~Top.autopop /\ get(files).c = EOF)
              => /\ retc' = EOF /\ ~failed'
                 /\ vec_len(files') = vec_len(files)
                 /\ files' = set_tail(files, [Top EXCEPT !.column = @ + 1,
                                                           !.last = EOF,
                                                           !.p = Top'.p])
        /\ (op = "readc" /\ retc = EOF /\ op' = "unreadc") => files' = files ]_vars

C18_Witness ==
    /\ op = "unreadc" /\ retc = EOF /\ ~failed /\ files # << >>
    /\ Top.src = << >> /\ Top.line = 2 /\ Top.column = 2 /\ Top.last = EOF

----------------------------------------------------------------------------
(* Claims about the stack machine (specification Spec) *)

(* A unit that has nothing left to deliver: no pushback, origin at its end, *)
(* and the newline before EOF already delivered or not needed.              *)
Exhausted(f) == f.buf = << >> /\ f.p = Len(f.src) /\ f.last \in {NL, EOF}

(* C5: with an exhausted auto-pop unit on top of a unit that is not        *)
(* auto-pop, readc() removes the top unit and returns what a readc() on    *)
(* the stack without it returns; and readc() never returns EOF leaving an  *)
(* auto-pop unit on top.                                                   *)
C5_NestedInclusion ==
    [][ /\ ( /\ vec_len(files) >= 2
              /\ Top.autopop
              /\ ~files[vec_len(files) - 1].autopop
              /\ Exhausted(Top)
              /\ op' = "readc" )
            => LET r == readc(vec_pop(files))
               IN /\ files' = r.files
                  /\ retc' = r.c
                  /\ ~failed'
                  /\ vec_len(files') = vec_len(files) - 1
                  /\ popped' = 1
        /\ (op' = "readc" /\ retc' = EOF /\ ~failed')
            => (files' # << >> /\ ~vec_tail(files').autopop) ]_vars

C5_Witness ==
    /\ op = "readc" /\ popped = 1 /\ ~failed /\ vec_len(files) = 1
    /\ ~Top.autopop /\ retc = LA /\ Top.p = 1

(* C7: unreadc(c) with c negative changes nothing and does not fail, on an *)
(* empty stack either.                                                     *)
C7_UnreadEOFNoOp ==
    [][ (op' = "unreadc" /\ retc' < 0) => (files' = files /\ ~failed') ]_vars

C7_Witness == op = "unreadc" /\ retc < 0 /\ files = << >> /\ ~failed /\ nops >= 3

C9_SentinelOnEmpty == op = "current_file" => ~failed

(* C9 as amended: current_file() returns the top unit of a non-empty stack *)
(* and fails, as the top-of-stack primitive does, on an empty one.         *)
C9_TopOrFailure ==
    op = "current_file"
        => IF files = << >> THEN failed /\ retfile = << >>
           ELSE ~failed /\ retfile = <<Top>>

C9_Witness ==
    /\ op = "current_file" /\ ~failed /\ vec_len(files) = 2
    /\ files[1] # files[2] /\ retfile = <<files[2]>>

(* C10: a readc() on an exhausted top unit that is not auto-pop returns    *)
(* EOF, keeps the unit on the stack and leaves it exhausted, so that every *)
(* further readc() returns EOF as well.                                    *)
C10_EOFIsSticky ==
    [][ ( /\ files # << >>
          /\ ~Top.autopop
          /\ Exhausted(Top)
          /\ op' = "readc" )
        => /\ retc' = EOF
           /\ ~failed'
           /\ vec_len(files') = vec_len(files)
           /\ popped' = 0
           /\ Exhausted(vec_tail(files')) ]_vars

C10_Witness ==
    /\ op = "readc" /\ retc = EOF /\ ~failed /\ files # << >>
    /\ ~Top.autopop /\ Top.src = << >> /\ Top.line = 2 /\ Top.column = 2

====
